---- MODULE Spec2Model ----
(***************************************************************************)
(* One WebSocketConnection of trio_websocket/__init__.py: its reader task, *)
(* its writer task and the application tasks calling its API, run by a     *)
(* cooperative scheduler (a task runs from one await to the next), against *)
(* a peer that puts frames on the inbound wire.  The framing engine        *)
(* (wsproto), the transport and the scheduler are modelled by what the     *)
(* connection observes of them.                                            *)
(***************************************************************************)
EXTENDS Integers, Sequences, FiniteSets, TLC

\* ------------------------------------------------------------------ bounds
MaxEvents == 3         \* application calls plus frames the peer sends on its own
MaxChunk == 2          \* frames one receive_some may return together

Apps == {"a1", "a2"}
Tasks == {"reader", "writer"} \cup Apps

\* ------------------------------------------------------------------ values
ABNORMAL_CLOSURE == 1006

\* wsframeproto.CloseReason(code).name for the codes the engine defines.
WsCloseName(code) ==
    CASE code = 1000 -> "NORMAL_CLOSURE"
      [] code = 1001 -> "GOING_AWAY"
      [] code = 1002 -> "PROTOCOL_ERROR"
      [] code = 1003 -> "UNSUPPORTED_DATA"
      [] code = 1005 -> "NO_STATUS_RCVD"
      [] code = 1006 -> "ABNORMAL_CLOSURE"
      [] code = 1007 -> "INVALID_FRAME_PAYLOAD_DATA"
      [] code = 1008 -> "POLICY_VIOLATION"
      [] code = 1009 -> "MESSAGE_TOO_BIG"
      [] code = 1010 -> "MANDATORY_EXT"
      [] code = 1011 -> "INTERNAL_ERROR"
      [] code = 1012 -> "SERVICE_RESTART"
      [] code = 1013 -> "TRY_AGAIN_LATER"
      [] code = 1015 -> "TLS_HANDSHAKE_FAILED"
      [] OTHER -> "ValueError"

\* CloseReason.__init__: the engine's name, or the name of the code's range
\* (CloseReason_Exclusive: the ranges without their upper ends).
CloseReason_Exclusive(code, reason) ==
    [code |-> code,
     name |-> IF WsCloseName(code) # "ValueError" THEN WsCloseName(code)
              ELSE IF 1000 <= code /\ code < 2999 THEN "RFC_RESERVED"
              ELSE IF 3000 <= code /\ code < 3999 THEN "IANA_RESERVED"
              ELSE IF 4000 <= code /\ code < 4999 THEN "PRIVATE_RESERVED"
              ELSE "INVALID_CODE",
     reason |-> reason]
CloseReason(code, reason) ==
    [code |-> code,
     name |-> IF WsCloseName(code) # "ValueError" THEN WsCloseName(code)
              ELSE IF 1000 <= code /\ code <= 2999 THEN "RFC_RESERVED"
              ELSE IF 3000 <= code /\ code <= 3999 THEN "IANA_RESERVED"
              ELSE IF 4000 <= code /\ code <= 4999 THEN "PRIVATE_RESERVED"
              ELSE "INVALID_CODE",
     reason |-> reason]

\* Python's None in an attribute that otherwise holds a CloseReason.
None == [code |-> 0, name |-> "None", reason |-> ""]

\* What travels through the message queue: a payload or a ConnectionClosed.
NoItem == [kind |-> "none", type |-> "", data |-> <<>>, reason |-> None]
Msg(type, data) == [kind |-> "msg", type |-> type, data |-> data, reason |-> None]
ConnectionClosed(r) == [kind |-> "exc", type |-> "", data |-> <<>>, reason |-> r]

\* A frame on a wire or an event of the engine.
Frame(k, type, data, fin, first, id, code, reason) ==
    [k |-> k, type |-> type, data |-> data, fin |-> fin, first |-> first,
     id |-> id, code |-> code, reason |-> reason]
Ctl(k) == Frame(k, "", <<>>, TRUE, TRUE, 0, 0, "")
DataOut(id) == Frame("data", "", <<>>, TRUE, TRUE, id, 0, "")
DataIn(type, data, fin, first) == Frame("data", type, data, fin, first, 0, 0, "")
CloseFrame(code, reason) == Frame("close", "", <<>>, TRUE, TRUE, 0, code, reason)
Eof == Ctl("eof")

\* Arguments the application passes to close(), and those of a close the
\* peer starts on its own.
LocalCloseArgs == {<<1000, "bye">>}
RemoteCloseArgs == {<<1001, "away">>}

\* ------------------------------------------------------------------ state
VARIABLES
    client,             \* _wsproto.client: the role of this endpoint
    pc,                 \* where each task stands
    runq,               \* tasks of the scheduler's current batch still to run
    close_reason,       \* _close_reason
    close_creason,      \* _close_creason, the attribute line 277 assigns
    closed,             \* _closed (Event)
    data_pending,       \* _data_pending (Event)
    data_sent,          \* _data_sent (Event)
    pong_received,      \* _pong_received (Event)
    reader_running,     \* _reader_running
    writer_running,     \* _writer_running
    bytes_message,      \* _bytes_message
    str_message,        \* _str_message
    get_wait,           \* _message_queue: tasks suspended in get(), oldest first
    put_wait,           \* _message_queue: the item of the task suspended in put()
    got,                \* the item handed to each task resuming from get()
    wsOut,              \* _wsproto: outbound frames not yet taken by bytes_to_send
    wsEvents,           \* _wsproto: events of the bytes last fed, not yet handled
    wsClosed,           \* _wsproto.closed: the engine has observed a close
    wsClosing,          \* _wsproto: a close frame has been queued
    inWire,             \* _stream: frames the peer sent, not yet received
    sent,               \* _stream: the kinds of frame passed to send_all so far
    streamClosed,       \* _stream: aclose() has been called
    peerOpen,           \* peer: type of the message it is in the middle of
    peerCur,            \* peer: data of that message so far
    peerMsgs,           \* peer: the complete messages it has sent, in order
    peerClosed,         \* peer: it has sent its close frame
    budget,             \* calls the application and frames the peer may still make
    mine,               \* application: the frame of each task's send_message under way
    last,               \* application: the call that completed in the last step
    published,          \* history: items passed to the message queue's put
    delivered,          \* history: payloads get_message returned, in order
    abortSeen,          \* history: the reader saw a zero-length read before any close
    waitingAtAbort      \* history: tasks suspended in get_message at that moment

vars == <<client, pc, runq, close_reason, close_creason, closed, data_pending,
          data_sent, pong_received, reader_running, writer_running,
          bytes_message, str_message, get_wait, put_wait, got, wsOut, wsEvents,
          wsClosed, wsClosing, inWire, sent, streamClosed, peerOpen, peerCur,
          peerMsgs, peerClosed, budget, mine, last, published, delivered,
          abortSeen, waitingAtAbort>>

connVars == <<close_reason, close_creason, closed, data_pending, data_sent,
              pong_received, reader_running, writer_running, bytes_message,
              str_message>>
queueVars == <<get_wait, put_wait, got>>
engineVars == <<wsOut, wsEvents, wsClosed, wsClosing>>
streamVars == <<inWire, sent, streamClosed>>
peerVars == <<peerOpen, peerCur, peerMsgs, peerClosed>>
appVars == <<budget, mine>>
histVars == <<published, delivered, abortSeen, waitingAtAbort>>

\* ------------------------------------------------------------------ scheduler
\* A task at one of these places will run again without anything else
\* having to happen: it has been rescheduled.
Runnable(s) ==
    s \in {"start", "recv_ready", "put_done", "cmq", "closing", "pending_ready",
           "sending", "get_ready", "send_ready", "ping_ready", "close_ready"}

\* The reader is in the middle of a run, between two awaits.
Busy == pc["reader"] = "dispatch"

\* The batch left after a step: when the current batch is exhausted, the
\* tasks rescheduled meanwhile form the next one.
Roll(q, p) ==
    IF p["reader"] = "dispatch" THEN q
    ELSE IF q = {} THEN {t \in Tasks : Runnable(p[t])}
    ELSE q

\* Event.set(): every task suspended in wait() is rescheduled.
Wake(p, from, to) == [t \in Tasks |-> IF p[t] = from THEN to ELSE p[t]]
\* Event.wait(): a checkpoint when the flag is set, a suspension otherwise.
EventWait(flag, parked, ready) == IF flag THEN ready ELSE parked

\* receive_some: data, an end of stream or a closed stream completes it.
RecvPc(wire, isClosed) == IF wire # <<>> \/ isClosed THEN "recv_ready" ELSE "recv"


\* ------------------------------------------------------------------ Init
NoCall == [op |-> "none", out |-> "none", by |-> "", id |-> 0, item |-> NoItem]
Returned(op, t, id, item) == [op |-> op, out |-> "ret", by |-> t, id |-> id, item |-> item]
Raised(op, t, item) == [op |-> op, out |-> "raise", by |-> t, id |-> 0, item |-> item]

\* WebSocketConnection.__init__, and the tasks the listener or the dialer
\* starts: the client's handshake request is already queued in its engine,
\* the server's is on its way in.
Init ==
    /\ client \in BOOLEAN
    /\ pc = [t \in Tasks |-> IF t \in Apps THEN "idle" ELSE "start"]
    /\ runq = {"reader", "writer"}
    /\ close_reason = None
    /\ close_creason = None
    /\ closed = FALSE
    /\ data_pending = client
    /\ data_sent = FALSE
    /\ pong_received = FALSE
    /\ reader_running = TRUE
    /\ writer_running = TRUE
    /\ bytes_message = <<>>
    /\ str_message = <<>>
    /\ get_wait = <<>>
    /\ put_wait = NoItem
    /\ got = [t \in Apps |-> NoItem]
    /\ wsOut = IF client THEN <<Ctl("handshake")>> ELSE <<>>
    /\ wsEvents = <<>>
    /\ wsClosed = FALSE
    /\ wsClosing = FALSE
    /\ inWire = IF client THEN <<>> ELSE <<Ctl("request")>>
    /\ sent = {}
    /\ streamClosed = FALSE
    /\ peerOpen = IF client THEN "connecting" ELSE ""
    /\ peerCur = <<>>
    /\ peerMsgs = <<>>
    /\ peerClosed = FALSE
    /\ budget = MaxEvents
    /\ mine = [t \in Apps |-> 0]
    /\ last = NoCall
    /\ published = <<>>
    /\ delivered = <<>>
    /\ abortSeen = FALSE
    /\ waitingAtAbort = {}

\* ------------------------------------------------------------------ API
\* `if self._close_reason:` at the head of close, get_message, ping and
\* send_message (AlreadyClosed_Never: a guard that lets every call through).
AlreadyClosed_Never == FALSE
AlreadyClosed == close_reason # None

\* An idle task may call at any moment.  Idle tasks carry no state and are
\* interchangeable, so when both are idle it is a1 that calls.
CanCall(t) ==
    /\ pc[t] = "idle" /\ budget > 0 /\ ~Busy
    /\ t = "a2" => pc["a1"] # "idle"

\* `raise ConnectionClosed(self._close_reason)`: nothing else happens.
GuardRaise(t, op) ==
    /\ last' = Raised(op, t, ConnectionClosed(close_reason))
    /\ budget' = budget - 1
    /\ UNCHANGED <<client, pc, runq, connVars, queueVars, engineVars,
                   streamVars, peerVars, mine, histVars>>

\* `await self._closed.wait()` in close() (CloseSuspendPc_NoWait: a wait
\* that is a mere checkpoint whatever the flag).
CloseSuspendPc_NoWait == "close_ready"
CloseSuspendPc == EventWait(closed, "close_wait", "close_ready")

\* close(code, reason) with its arguments drawn from args.
CloseCall(t, args) ==
    /\ CanCall(t)
    /\ IF AlreadyClosed THEN GuardRaise(t, "close")
       ELSE \E a \in args :
            /\ wsOut' = Append(wsOut, CloseFrame(a[1], a[2]))
            /\ wsClosing' = TRUE
            /\ close_reason' = CloseReason(a[1], a[2])
            /\ data_pending' = TRUE
            /\ pc' = Wake([pc EXCEPT ![t] = CloseSuspendPc],
                          "wait_pending", "pending_ready")
            /\ runq' = Roll(runq, pc')
            /\ last' = NoCall
            /\ budget' = budget - 1
            /\ UNCHANGED <<client, close_creason, closed, data_sent,
                           pong_received, reader_running, writer_running,
                           bytes_message, str_message, queueVars, wsEvents,
                           wsClosed, streamVars, peerVars, mine, histVars>>

Close(t) == CloseCall(t, LocalCloseArgs)

CloseReturn(t) ==
    /\ pc[t] = "close_ready" /\ t \in runq /\ ~Busy
    /\ pc' = [pc EXCEPT ![t] = "idle"]
    /\ runq' = Roll(runq \ {t}, pc')
    /\ last' = Returned("close", t, 0, NoItem)
    /\ UNCHANGED <<client, connVars, queueVars, engineVars, streamVars,
                   peerVars, appVars, histVars>>

\* Queue.get(): an item a task is suspended putting is taken at once and the
\* caller passes a checkpoint; otherwise the caller is suspended.
GetMessage(t) ==
    /\ CanCall(t)
    /\ IF AlreadyClosed THEN GuardRaise(t, "get")
       ELSE /\ IF put_wait.kind # "none"
               THEN /\ got' = [got EXCEPT ![t] = put_wait]
                    /\ put_wait' = NoItem
                    /\ pc' = [pc EXCEPT ![t] = "get_ready", !["reader"] = "put_done"]
                    /\ UNCHANGED get_wait
               ELSE /\ get_wait' = Append(get_wait, t)
                    /\ pc' = [pc EXCEPT ![t] = "get_wait"]
                    /\ UNCHANGED <<put_wait, got>>
            /\ runq' = Roll(runq, pc')
            /\ last' = NoCall
            /\ budget' = budget - 1
            /\ UNCHANGED <<client, connVars, engineVars, streamVars, peerVars,
                           mine, histVars>>

\* `if isinstance(next_, Exception): raise next_  else: return next_`
GetReturn(t) ==
    /\ pc[t] = "get_ready" /\ t \in runq /\ ~Busy
    /\ pc' = [pc EXCEPT ![t] = "idle"]
    /\ runq' = Roll(runq \ {t}, pc')
    /\ got' = [got EXCEPT ![t] = NoItem]
    /\ IF got[t].kind = "exc"
       THEN /\ last' = Raised("get", t, got[t])
            /\ UNCHANGED delivered
       ELSE /\ last' = Returned("get", t, 0, got[t])
            /\ delivered' = Append(delivered, got[t])
    /\ UNCHANGED <<client, connVars, get_wait, put_wait, engineVars, streamVars,
                   peerVars, appVars, published, abortSeen, waitingAtAbort>>

Ping(t) ==
    /\ CanCall(t)
    /\ IF AlreadyClosed THEN GuardRaise(t, "ping")
       ELSE /\ wsOut' = Append(wsOut, Ctl("ping"))
            /\ data_pending' = TRUE
            /\ pc' = Wake([pc EXCEPT ![t] = EventWait(pong_received, "ping_wait", "ping_ready")],
                          "wait_pending", "pending_ready")
            /\ runq' = Roll(runq, pc')
            /\ last' = NoCall
            /\ budget' = budget - 1
            /\ UNCHANGED <<client, close_reason, close_creason, closed, data_sent,
                           pong_received, reader_running, writer_running,
                           bytes_message, str_message, queueVars, wsEvents,
                           wsClosed, wsClosing, streamVars, peerVars, mine, histVars>>

PingReturn(t) ==
    /\ pc[t] = "ping_ready" /\ t \in runq /\ ~Busy
    /\ pong_received' = FALSE
    /\ pc' = [pc EXCEPT ![t] = "idle"]
    /\ runq' = Roll(runq \ {t}, pc')
    /\ last' = Returned("ping", t, 0, NoItem)
    /\ UNCHANGED <<client, close_reason, close_creason, closed, data_pending,
                   data_sent, reader_running, writer_running, bytes_message,
                   str_message, queueVars, engineVars, streamVars, peerVars,
                   appVars, histVars>>

SendMessage(t) ==
    /\ CanCall(t)
    /\ IF AlreadyClosed THEN GuardRaise(t, "send")
       ELSE /\ wsOut' = Append(wsOut, DataOut(budget))
            /\ data_pending' = TRUE
            /\ pc' = Wake([pc EXCEPT ![t] = EventWait(data_sent, "send_wait", "send_ready")],
                          "wait_pending", "pending_ready")
            /\ runq' = Roll(runq, pc')
            /\ mine' = [mine EXCEPT ![t] = budget]
            /\ last' = NoCall
            /\ budget' = budget - 1
            /\ UNCHANGED <<client, close_reason, close_creason, closed, data_sent,
                           pong_received, reader_running, writer_running,
                           bytes_message, str_message, queueVars, wsEvents,
                           wsClosed, wsClosing, streamVars, peerVars, histVars>>

SendReturn(t) ==
    /\ pc[t] = "send_ready" /\ t \in runq /\ ~Busy
    /\ data_sent' = FALSE
    /\ pc' = [pc EXCEPT ![t] = "idle"]
    /\ runq' = Roll(runq \ {t}, pc')
    /\ last' = Returned("send", t, mine[t], NoItem)
    /\ mine' = [mine EXCEPT ![t] = 0]
    /\ UNCHANGED <<client, close_reason, close_creason, closed, data_pending,
                   pong_received, reader_running, writer_running, bytes_message,
                   str_message, queueVars, engineVars, streamVars, peerVars,
                   budget, histVars>>


\* ------------------------------------------------------------------ teardown
\* _close_stream up to its await: both flags cleared, the writer woken, the
\* transport closed (a task suspended in receive_some on it is woken with
\* ClosedResourceError); the caller is inside aclose().
\* (CloseStreamCall_ReaderOnly: without `self._writer_running = False`.)
CloseStreamCall_ReaderOnly(t, p) ==
    /\ reader_running' = FALSE
    /\ writer_running' = writer_running
    /\ data_pending' = TRUE
    /\ streamClosed' = TRUE
    /\ pc' = Wake(Wake([p EXCEPT ![t] = "closing"], "wait_pending", "pending_ready"),
                  "recv", "recv_ready")
CloseStreamCall(t, p) ==
    /\ reader_running' = FALSE
    /\ writer_running' = FALSE
    /\ data_pending' = TRUE
    /\ streamClosed' = TRUE
    /\ pc' = Wake(Wake([p EXCEPT ![t] = "closing"], "wait_pending", "pending_ready"),
                  "recv", "recv_ready")

\* _close_stream after aclose() returned: `self._closed.set()`; both callers
\* then leave their task.
CloseStreamReturn(t) ==
    /\ pc[t] = "closing" /\ t \in runq /\ ~Busy
    /\ closed' = TRUE
    /\ pc' = Wake([pc EXCEPT ![t] = "done"], "close_wait", "close_ready")
    /\ runq' = Roll(runq \ {t}, pc')
    /\ UNCHANGED <<client, close_reason, close_creason, data_pending, data_sent,
                   pong_received, reader_running, writer_running, bytes_message,
                   str_message, queueVars, engineVars, streamVars, peerVars,
                   appVars, histVars>>
    /\ last' = NoCall

\* ------------------------------------------------------------------ writer
\* The is_server property (is_server_Always: true whatever the role).
is_server_Always == TRUE
is_server == ~client

\* The code after the writer's loop: the server closes the transport.
WriterExit(p) ==
    IF is_server
    THEN CloseStreamCall("writer", p)
    ELSE /\ pc' = [p EXCEPT !["writer"] = "done"]
         /\ UNCHANGED <<reader_running, writer_running, streamClosed>>

\* First run of the writer: the loop test and the first wait.
WriterStart ==
    /\ pc["writer"] = "start" /\ "writer" \in runq /\ ~Busy
    /\ IF writer_running
       THEN /\ pc' = [pc EXCEPT !["writer"] =
                        EventWait(data_pending, "wait_pending", "pending_ready")]
            /\ UNCHANGED <<reader_running, writer_running, streamClosed, data_pending>>
       ELSE /\ WriterExit(pc)
            /\ IF is_server THEN TRUE ELSE UNCHANGED data_pending
    /\ runq' = Roll(runq \ {"writer"}, pc')
    /\ UNCHANGED <<client, close_reason, close_creason, closed, data_sent,
                   pong_received, bytes_message, str_message, queueVars,
                   engineVars, inWire, sent, peerVars, appVars, histVars>>
    /\ last' = NoCall

\* `self._data_pending.clear(); self._data_sent.set()`, the loop test, and
\* either the next wait (on the flag just cleared) or the code after the loop.
WriterCycleEnd ==
    /\ data_sent' = TRUE
    /\ LET p == Wake(pc, "send_wait", "send_ready") IN
       IF writer_running
       THEN /\ data_pending' = FALSE
            /\ pc' = [p EXCEPT !["writer"] = "wait_pending"]
            /\ UNCHANGED <<reader_running, writer_running, streamClosed>>
       ELSE /\ WriterExit(p)
            /\ IF is_server THEN TRUE ELSE data_pending' = FALSE
    /\ runq' = Roll(runq \ {"writer"}, pc')

\* The writer resumes from the wait: bytes_to_send, and send_all when there
\* is something to send.  send_all on a transport already closed raises
\* ClosedResourceError, which nothing in the writer catches: the writer task
\* dies and the nursery cancels the tasks that run in it, which ends the run.
WriterSend ==
    /\ pc["writer"] = "pending_ready" /\ "writer" \in runq /\ ~Busy
    /\ IF wsOut # <<>>
       THEN /\ wsOut' = <<>>
            /\ IF streamClosed
               THEN /\ pc' = [t \in Tasks |-> IF t = "writer" THEN "crashed"
                                                ELSE "cancelled"]
                    /\ UNCHANGED sent
               ELSE /\ pc' = [pc EXCEPT !["writer"] = "sending"]
                    /\ sent' = sent \cup {[wsOut[i] EXCEPT !.id = 0] : i \in 1..Len(wsOut)}
            /\ runq' = Roll(runq \ {"writer"}, pc')
            /\ UNCHANGED <<data_pending, data_sent, reader_running,
                           writer_running, streamClosed>>
       ELSE /\ WriterCycleEnd
            /\ UNCHANGED <<wsOut, sent>>
    /\ UNCHANGED <<client, close_reason, close_creason, closed, pong_received,
                   bytes_message, str_message, queueVars, wsEvents, wsClosed,
                   wsClosing, inWire, peerVars, appVars, histVars>>
    /\ last' = NoCall

\* send_all returned.
WriterSent ==
    /\ pc["writer"] = "sending" /\ "writer" \in runq /\ ~Busy
    /\ WriterCycleEnd
    /\ UNCHANGED <<client, close_reason, close_creason, closed, pong_received,
                   bytes_message, str_message, queueVars, engineVars, inWire,
                   sent, peerVars, appVars, histVars>>
    /\ last' = NoCall

\* The transport was closed while the writer was inside send_all: the call
\* either had already written the data (WriterSent) or raises
\* ClosedResourceError, with the same end as in WriterSend.
WriterSendFailed ==
    /\ pc["writer"] = "sending" /\ "writer" \in runq /\ ~Busy
    /\ streamClosed
    /\ pc' = [t \in Tasks |-> IF t = "writer" THEN "crashed" ELSE "cancelled"]
    /\ runq' = Roll(runq \ {"writer"}, pc')
    /\ UNCHANGED <<client, connVars, queueVars, engineVars, streamVars,
                   peerVars, appVars, histVars>>
    /\ last' = NoCall

WriterClosed == CloseStreamReturn("writer")


\* ------------------------------------------------------------------ reader
\* The head of the reader's loop: `while self._reader_running:` and the call
\* of receive_some.
LoopPc == IF reader_running THEN RecvPc(inWire, streamClosed) ELSE "done"

\* handle_event returned: the next event of the chunk, or the loop's head.
Continue(p) ==
    /\ wsEvents' = Tail(wsEvents)
    /\ pc' = [p EXCEPT !["reader"] =
                IF Tail(wsEvents) # <<>> THEN "dispatch" ELSE LoopPc]
    /\ runq' = Roll(runq \ {"reader"}, pc')

ReaderStart ==
    /\ pc["reader"] = "start" /\ "reader" \in runq
    /\ pc' = [pc EXCEPT !["reader"] = LoopPc]
    /\ runq' = Roll(runq \ {"reader"}, pc')
    /\ UNCHANGED <<client, connVars, queueVars, engineVars, streamVars,
                   peerVars, appVars, histVars>>
    /\ last' = NoCall

\* receive_some raised ClosedResourceError: `break`.
ReaderRecvClosed ==
    /\ pc["reader"] = "recv_ready" /\ "reader" \in runq
    /\ streamClosed
    /\ pc' = [pc EXCEPT !["reader"] = "done"]
    /\ runq' = Roll(runq \ {"reader"}, pc')
    /\ UNCHANGED <<client, connVars, queueVars, engineVars, streamVars,
                   peerVars, appVars, histVars>>
    /\ last' = NoCall

\* receive_some returned b'': lines 271-281.
ReaderRecvZero ==
    /\ pc["reader"] = "recv_ready" /\ "reader" \in runq
    /\ ~streamClosed
    /\ Head(inWire).k = "eof"
    /\ close_creason' = IF ~wsClosed
                        THEN CloseReason(ABNORMAL_CLOSURE, "TCP connection aborted")
                        ELSE close_creason
    /\ abortSeen' = (abortSeen \/ ~wsClosed)
    /\ waitingAtAbort' = IF ~wsClosed THEN {t \in Apps : pc[t] = "get_wait"}
                         ELSE waitingAtAbort
    /\ CloseStreamCall("reader", pc)
    /\ runq' = Roll(runq \ {"reader"}, pc')
    /\ UNCHANGED <<client, close_reason, closed, data_sent, pong_received,
                   bytes_message, str_message, queueVars, engineVars, inWire,
                   sent, peerVars, appVars, published, delivered>>
    /\ last' = NoCall

\* receive_some returned data: receive_bytes, then the events one by one.
ReaderRecvData ==
    /\ pc["reader"] = "recv_ready" /\ "reader" \in runq
    /\ ~streamClosed
    /\ \E n \in 1..MaxChunk :
        /\ n <= Len(inWire)
        /\ \A i \in 1..n : inWire[i].k # "eof"
        /\ wsEvents' = SubSeq(inWire, 1, n)
        /\ inWire' = SubSeq(inWire, n + 1, Len(inWire))
    /\ pc' = [pc EXCEPT !["reader"] = "dispatch"]
    /\ runq' = runq \ {"reader"}
    /\ UNCHANGED <<client, connVars, queueVars, wsOut, wsClosed, wsClosing,
                   sent, streamClosed, peerVars, appVars, histVars>>
    /\ last' = NoCall

\* ConnectionRequested: accept, and wake the writer.
HandleRequest ==
    /\ Busy /\ Head(wsEvents).k = "request"
    /\ wsOut' = Append(wsOut, Ctl("accept"))
    /\ data_pending' = TRUE
    /\ Continue(Wake(pc, "wait_pending", "pending_ready"))
    /\ UNCHANGED <<client, close_reason, close_creason, closed, data_sent,
                   pong_received, reader_running, writer_running, bytes_message,
                   str_message, queueVars, wsClosed, wsClosing, streamVars,
                   peerVars, appVars, histVars>>
    /\ last' = NoCall

\* ConnectionEstablished: nothing.
HandleEstablished ==
    /\ Busy /\ Head(wsEvents).k = "established"
    /\ Continue(pc)
    /\ UNCHANGED <<client, connVars, queueVars, wsOut, wsClosed, wsClosing,
                   streamVars, peerVars, appVars, histVars>>
    /\ last' = NoCall

\* One turn of _close_message_queue's loop: put_nowait hands the exception to
\* the oldest task suspended in get() and the reader sleeps; with no such
\* task it raises WouldBlock, and handle_event goes on with lines 239-240.
\* (CmqIter_Once: a single put_nowait in place of the loop.)
CmqIter_Once(r) ==
    /\ IF get_wait # <<>>
       THEN /\ got' = [got EXCEPT ![Head(get_wait)] = ConnectionClosed(r)]
            /\ get_wait' = Tail(get_wait)
       ELSE UNCHANGED <<get_wait, got>>
    /\ writer_running' = FALSE
    /\ data_pending' = TRUE
    /\ Continue(Wake(IF get_wait # <<>>
                     THEN [pc EXCEPT ![Head(get_wait)] = "get_ready"] ELSE pc,
                     "wait_pending", "pending_ready"))
CmqIter(r) ==
    IF get_wait # <<>>
    THEN /\ got' = [got EXCEPT ![Head(get_wait)] = ConnectionClosed(r)]
         /\ get_wait' = Tail(get_wait)
         /\ pc' = [pc EXCEPT ![Head(get_wait)] = "get_ready", !["reader"] = "cmq"]
         /\ runq' = Roll(runq \ {"reader"}, pc')
         /\ UNCHANGED <<writer_running, data_pending, wsEvents>>
    ELSE /\ writer_running' = FALSE
         /\ data_pending' = TRUE
         /\ Continue(Wake(pc, "wait_pending", "pending_ready"))
         /\ UNCHANGED <<get_wait, got>>

\* `if self._close_reason is None: self._close_reason = CloseReason(...)`
\* (FirstReason_Last: the assignment without the test).
FirstReason_Last(cur, code, reason) == CloseReason(code, reason)
FirstReason(cur, code, reason) ==
    IF cur = None THEN CloseReason(code, reason) ELSE cur

\* ConnectionClosed: the engine has queued its reply (unless it had already
\* sent a close); lines 236-238.
HandleClosed ==
    /\ Busy /\ Head(wsEvents).k = "close"
    /\ wsClosed' = TRUE
    /\ wsClosing' = TRUE
    /\ wsOut' = IF wsClosing THEN wsOut
                ELSE Append(wsOut, CloseFrame(Head(wsEvents).code, Head(wsEvents).reason))
    /\ close_reason' = FirstReason(close_reason, Head(wsEvents).code,
                                   Head(wsEvents).reason)
    /\ CmqIter(close_reason')
    /\ UNCHANGED <<client, close_creason, closed, data_sent, pong_received,
                   reader_running, bytes_message, str_message, put_wait,
                   streamVars, peerVars, appVars, histVars>>
    /\ last' = NoCall

ReaderCmq ==
    /\ pc["reader"] = "cmq" /\ "reader" \in runq
    /\ CmqIter(close_reason)
    /\ UNCHANGED <<client, close_reason, close_creason, closed, data_sent,
                   pong_received, reader_running, bytes_message, str_message,
                   put_wait, wsOut, wsClosed, wsClosing, streamVars, peerVars,
                   appVars, histVars>>
    /\ last' = NoCall

\* Queue.put(item) on the queue of capacity 0: the item goes to the oldest
\* task suspended in get() and the reader passes a checkpoint, or the reader
\* is suspended until a get() takes the item.
QueuePut(item) ==
    /\ published' = Append(published, item)
    /\ IF get_wait # <<>>
       THEN /\ got' = [got EXCEPT ![Head(get_wait)] = item]
            /\ get_wait' = Tail(get_wait)
            /\ pc' = [pc EXCEPT ![Head(get_wait)] = "get_ready", !["reader"] = "put_done"]
            /\ UNCHANGED put_wait
       ELSE /\ put_wait' = item
            /\ pc' = [pc EXCEPT !["reader"] = "put_wait"]
            /\ UNCHANGED <<get_wait, got>>
    /\ runq' = Roll(runq \ {"reader"}, pc')

\* `self._bytes_message += event.data` / `self._str_message += event.data`
\* (Accumulate_Overwrite: `=` in place of `+=`).
Accumulate_Overwrite(acc, data) == data
Accumulate(acc, data) == acc \o data

\* BytesReceived / TextReceived: lines 241-252 up to the await.
HandleData ==
    /\ Busy /\ Head(wsEvents).k = "data"
    /\ LET ev == Head(wsEvents)
           b == IF ev.type = "bytes" THEN Accumulate(bytes_message, ev.data)
                ELSE bytes_message
           s == IF ev.type = "text" THEN Accumulate(str_message, ev.data)
                ELSE str_message
       IN /\ bytes_message' = b
          /\ str_message' = s
          /\ IF ev.fin
             THEN /\ QueuePut(Msg(ev.type, IF ev.type = "bytes" THEN b ELSE s))
                  /\ UNCHANGED wsEvents
             ELSE /\ Continue(pc)
                  /\ UNCHANGED <<queueVars, published>>
    /\ UNCHANGED <<client, close_reason, close_creason, closed, data_pending,
                   data_sent, pong_received, reader_running, writer_running,
                   wsOut, wsClosed, wsClosing, streamVars, peerVars, appVars,
                   delivered, abortSeen, waitingAtAbort>>
    /\ last' = NoCall

\* `self._bytes_message = b''` / `self._str_message = ''` after the put
\* (AfterPut_Keep: the accumulator left as it is).
AfterPut_Keep(acc) == acc
AfterPut(acc) == <<>>

\* put() returned: the accumulator is reset and handle_event returns.
ReaderPutDone ==
    /\ pc["reader"] = "put_done" /\ "reader" \in runq
    /\ bytes_message' = IF Head(wsEvents).type = "bytes"
                        THEN AfterPut(bytes_message) ELSE bytes_message
    /\ str_message' = IF Head(wsEvents).type = "text"
                      THEN AfterPut(str_message) ELSE str_message
    /\ Continue(pc)
    /\ UNCHANGED <<client, close_reason, close_creason, closed, data_pending,
                   data_sent, pong_received, reader_running, writer_running,
                   queueVars, wsOut, wsClosed, wsClosing, streamVars, peerVars,
                   appVars, histVars>>
    /\ last' = NoCall

\* PingReceived: the engine has queued the pong; wake the writer.
HandlePing ==
    /\ Busy /\ Head(wsEvents).k = "ping"
    /\ wsOut' = Append(wsOut, Ctl("pong"))
    /\ data_pending' = TRUE
    /\ Continue(Wake(pc, "wait_pending", "pending_ready"))
    /\ UNCHANGED <<client, close_reason, close_creason, closed, data_sent,
                   pong_received, reader_running, writer_running, bytes_message,
                   str_message, queueVars, wsClosed, wsClosing, streamVars,
                   peerVars, appVars, histVars>>
    /\ last' = NoCall

\* PongReceived: `self._pong_received.set()`.
HandlePong ==
    /\ Busy /\ Head(wsEvents).k = "pong"
    /\ pong_received' = TRUE
    /\ Continue(Wake(pc, "ping_wait", "ping_ready"))
    /\ UNCHANGED <<client, close_reason, close_creason, closed, data_pending,
                   data_sent, reader_running, writer_running, bytes_message,
                   str_message, queueVars, wsOut, wsClosed, wsClosing,
                   streamVars, peerVars, appVars, histVars>>
    /\ last' = NoCall

ReaderClosed == CloseStreamReturn("reader")

\* ------------------------------------------------------------------ peer
NoEof == IF inWire = <<>> THEN TRUE ELSE inWire[Len(inWire)].k # "eof"
PeerCanSend == ~Busy /\ NoEof /\ ~streamClosed /\ ~peerClosed
SentClose == \E f \in sent : f.k = "close"

\* A frame reaches the transport: a reader suspended in receive_some wakes.
Arrive(f) ==
    /\ inWire' = Append(inWire, f)
    /\ pc' = Wake(pc, "recv", "recv_ready")
    /\ runq' = Roll(runq, pc')

\* The server answers the client's opening handshake.
PeerAccept ==
    /\ PeerCanSend /\ peerOpen = "connecting"
    /\ \E f \in sent : f.k = "handshake"
    /\ Arrive(Ctl("established"))
    /\ peerOpen' = ""
    /\ UNCHANGED <<client, connVars, queueVars, engineVars, sent, streamClosed,
                   peerCur, peerMsgs, peerClosed, appVars, histVars>>
    /\ last' = NoCall

\* The peer sends one frame of a message; the frames of one message have
\* one type, and each frame carries data no other frame carries.
PeerData ==
    /\ PeerCanSend /\ budget > 0
    /\ \E type \in {"bytes", "text"}, fin \in BOOLEAN :
        /\ peerOpen \in {"", type}
        /\ Arrive(DataIn(type, <<budget>>, fin, peerOpen = ""))
        /\ peerOpen' = IF fin THEN "" ELSE type
        /\ peerCur' = IF fin THEN <<>> ELSE peerCur \o <<budget>>
        /\ peerMsgs' = IF fin THEN Append(peerMsgs, Msg(type, peerCur \o <<budget>>))
                       ELSE peerMsgs
    /\ budget' = budget - 1
    /\ UNCHANGED <<client, connVars, queueVars, engineVars, sent, streamClosed,
                   peerClosed, mine, histVars>>
    /\ last' = NoCall

PeerControl ==
    /\ PeerCanSend /\ budget > 0 /\ peerOpen # "connecting"
    /\ \E k \in {"ping", "pong"} : Arrive(Ctl(k))
    /\ budget' = budget - 1
    /\ UNCHANGED <<client, connVars, queueVars, engineVars, sent, streamClosed,
                   peerOpen, peerCur, peerMsgs, peerClosed, mine, histVars>>
    /\ last' = NoCall

\* The peer starts the closing handshake.
PeerClose ==
    /\ PeerCanSend /\ budget > 0 /\ peerOpen # "connecting"
    /\ \E a \in RemoteCloseArgs : Arrive(CloseFrame(a[1], a[2]))
    /\ peerClosed' = TRUE
    /\ budget' = budget - 1
    /\ UNCHANGED <<client, connVars, queueVars, engineVars, sent, streamClosed,
                   peerOpen, peerCur, peerMsgs, mine, histVars>>
    /\ last' = NoCall

\* The peer's engine answers the close frame this endpoint sent.
PeerAnswerClose ==
    /\ PeerCanSend /\ SentClose
    /\ LET f == CHOOSE f \in sent : f.k = "close"
       IN Arrive(CloseFrame(f.code, f.reason))
    /\ peerClosed' = TRUE
    /\ UNCHANGED <<client, connVars, queueVars, engineVars, sent, streamClosed,
                   peerOpen, peerCur, peerMsgs, appVars, histVars>>
    /\ last' = NoCall

\* The peer is the server and the closing handshake is complete on its
\* side: it shuts the transport.
PeerShutdown ==
    /\ ~Busy /\ NoEof /\ ~streamClosed
    /\ client /\ peerClosed /\ SentClose
    /\ Arrive(Eof)
    /\ UNCHANGED <<client, connVars, queueVars, engineVars, sent, streamClosed,
                   peerVars, appVars, histVars>>
    /\ last' = NoCall

\* The peer's transport dies.
PeerAbort ==
    /\ ~Busy /\ NoEof /\ ~streamClosed /\ budget > 0
    /\ Arrive(Eof)
    /\ budget' = budget - 1
    /\ UNCHANGED <<client, connVars, queueVars, engineVars, sent, streamClosed,
                   peerVars, mine, histVars>>
    /\ last' = NoCall

\* ------------------------------------------------------------------ Next
ReaderStep ==
    \/ ReaderStart \/ ReaderRecvClosed \/ ReaderRecvZero \/ ReaderRecvData
    \/ HandleRequest \/ HandleEstablished \/ HandleClosed \/ HandleData
    \/ HandlePing \/ HandlePong \/ ReaderPutDone \/ ReaderCmq \/ ReaderClosed

WriterStep ==
    WriterStart \/ WriterSend \/ WriterSent \/ WriterSendFailed \/ WriterClosed

AppCall(t) == Close(t) \/ GetMessage(t) \/ Ping(t) \/ SendMessage(t)
AppResume(t) == CloseReturn(t) \/ GetReturn(t) \/ PingReturn(t) \/ SendReturn(t)

PeerStep ==
    \/ PeerAccept \/ PeerData \/ PeerControl \/ PeerClose \/ PeerAnswerClose
    \/ PeerShutdown \/ PeerAbort

Next ==
    \/ ReaderStep
    \/ WriterStep
    \/ \E t \in Apps : AppCall(t)
    \/ \E t \in Apps : AppResume(t)
    \/ PeerStep

Spec == Init /\ [][Next]_vars

\* ------------------------------------------------------------------ CloseReason alone
\* Codes around every boundary of CloseReason.__init__, below and above all
\* ranges, and the reasons passed with them.
CodeInputs ==
    (-1 .. 2) \cup (998 .. 1017) \cup (2998 .. 3001) \cup (3998 .. 4001)
        \cup (4998 .. 5001) \cup {70000}
ReasonInputs == {"", "bye"}

\* A fresh connection on which close() is called with every such code and
\* reason, which constructs CloseReason(code, reason) at line 145.
CloseAny(t) == CloseCall(t, CodeInputs \X ReasonInputs)
NextCloseReason == \E t \in Apps : CloseAny(t)
SpecCloseReason == Init /\ [][NextCloseReason]_vars


\* ------------------------------------------------------------------ claims
IsPrefix(a, b) == Len(a) <= Len(b) /\ \A i \in 1..Len(a) : a[i] = b[i]

\* Steps the connection's tasks, the suspended calls and a peer that follows
\* the opening and closing handshakes can take without any new input.
Progress ==
    \/ ReaderStep
    \/ WriterStep
    \/ \E t \in Apps : AppResume(t)
    \/ PeerAccept \/ PeerAnswerClose \/ PeerShutdown

\* C1: after a zero-length read with no close observed by the engine, the
\* close-reason is code 1006, reason "TCP connection aborted".
C1_AbortSetsCloseReason ==
    abortSeen => close_reason = CloseReason(ABNORMAL_CLOSURE, "TCP connection aborted")

\* C2: a task suspended in get_message when the reader sees the zero-length
\* read is woken; stated for the moment the reader task, the only task that
\* puts on the message queue, has ended: none of them is still suspended.
C2_PendingGetWoken ==
    (abortSeen /\ pc["reader"] = "done") =>
        \A t \in waitingAtAbort : pc[t] # "get_wait"

\* C3: when send_message returns, the frame the engine produced for the call
\* is no longer waiting in the engine: the writer has passed it to send_all.
C3_SendReturnedMeansSent ==
    (last.op = "send" /\ last.out = "ret") =>
        \A i \in 1..Len(wsOut) : wsOut[i].id # last.id

\* C4: close() on an open connection eventually returns when the peer
\* follows the closing handshake; stated as what that needs in every state:
\* while a close() is suspended and the peer's transport has not died, the
\* connection's tasks or the peer's handshake can still take a step.
C4_CloseNotStuck ==
    ((\E t \in Apps : pc[t] = "close_wait") /\ ~abortSeen) => ENABLED Progress

\* C5: a call made while the close-reason is set raises ConnectionClosed
\* with that close-reason at once: the caller never enters a suspended call,
\* and the step in which its call completes raises and touches neither the
\* engine, the signals, the queue nor any task.
C5_GuardFails ==
    [][close_reason # None =>
        \A t \in Apps : pc[t] = "idle" =>
            /\ pc'[t] \in {"idle", "cancelled"}
            /\ last'.by = t =>
                /\ last'.out = "raise"
                /\ last'.item = ConnectionClosed(close_reason)
                /\ UNCHANGED <<pc, runq, connVars, queueVars, engineVars,
                               streamVars, mine>>]_vars

C5_Witness ==
    /\ last.op = "send" /\ last.out = "raise"
    /\ last.item.reason = close_reason

\* C6: once the close-reason is set, no get_message, send_message or ping
\* completes successfully.
C6_NoSuccessAfterClose ==
    (last.out = "ret" /\ last.op \in {"get", "send", "ping"}) => close_reason = None

\* C7: the closed signal is never raised while the close-reason is absent,
\* so that in CLOSED every API call fails at its guard.
C7_ClosedHasReason == closed => close_reason # None

\* C8: when close() returns, the transport has been closed and the closed
\* signal is set.
C8_CloseReturnsClosed ==
    (last.op = "close" /\ last.out = "ret") => (streamClosed /\ closed)

C8_Witness == last.op = "close" /\ last.out = "ret"

C10_Reassembly ==
    /\ [](bytes_message = <<>> \/ str_message = <<>>)
    /\ [][(Busy /\ Head(wsEvents).k = "data") =>
            /\ Head(wsEvents).first => (bytes_message = <<>> /\ str_message = <<>>)
            /\ ~Head(wsEvents).fin => published' = published
            /\ Head(wsEvents).fin =>
                 published' = Append(published, peerMsgs[Len(published) + 1])]_vars

C10_Witness == published # <<>> /\ Len(published[Len(published)].data) = 2

\* C11: a ping returns only on a pong dispatched after the ping was enqueued:
\* a task inside ping() is made ready to return only by a step in which the
\* reader dispatches a pong event while the task is suspended in the wait.
C11_PingNeedsLaterPong ==
    [][\A t \in Apps :
        (pc[t] # "ping_ready" /\ pc'[t] = "ping_ready") =>
            (pc[t] = "ping_wait" /\ Busy /\ Head(wsEvents).k = "pong")]_vars

\* C12: the close-reason is assigned at most once: once set it never changes,
\* whether a remote close event or another close() follows, and a close()
\* called when it is set raises ConnectionClosed with the existing reason
\* instead of suspending.
C12_CloseReasonOnce ==
    [][close_reason # None =>
        /\ close_reason' = close_reason
        /\ \A t \in Apps :
            /\ pc[t] = "idle" => pc'[t] \notin {"close_wait", "close_ready"}
            /\ (pc[t] = "idle" /\ last'.by = t /\ last'.op = "close") =>
                 last' = Raised("close", t, ConnectionClosed(close_reason))]_vars

\* A local close(1000, "bye") came first and the peer's own close frame
\* (1001, "away") has been dispatched after it.
C12_Witness ==
    /\ wsClosed /\ ~SentClose
    /\ close_reason = CloseReason(1000, "bye")

\* C13: CloseReason(code, reason) keeps code and reason, and its name is the
\* engine's name for the codes the engine defines, otherwise RFC_RESERVED in
\* 1000..2999, IANA_RESERVED in 3000..3999, PRIVATE_RESERVED in 4000..4999
\* and INVALID_CODE for every other integer.
EngineCodes == {1000, 1001, 1002, 1003, 1005, 1006, 1007, 1008, 1009, 1010,
                1011, 1012, 1013, 1015}
C13_CloseReasonName ==
    \A i \in 1..Len(wsOut) : wsOut[i].k = "close" =>
        /\ close_reason.code = wsOut[i].code
        /\ close_reason.reason = wsOut[i].reason
        /\ close_reason.name =
             IF close_reason.code \in EngineCodes THEN WsCloseName(close_reason.code)
             ELSE IF close_reason.code \in 1000..2999 THEN "RFC_RESERVED"
             ELSE IF close_reason.code \in 3000..3999 THEN "IANA_RESERVED"
             ELSE IF close_reason.code \in 4000..4999 THEN "PRIVATE_RESERVED"
             ELSE "INVALID_CODE"

C13_Witness ==
    /\ wsOut # <<>> /\ wsOut[Len(wsOut)].k = "close" /\ wsOut[Len(wsOut)].code = 70000
    /\ close_reason = [code |-> 70000, name |-> "INVALID_CODE", reason |-> "bye"]

\* C14: outbound bytes are never stranded: whenever the writer is suspended
\* in its wait with data-pending clear, the engine holds no outbound frame.
C14_NothingStranded ==
    (pc["writer"] = "wait_pending" /\ ~data_pending) => wsOut = <<>>

\* C15: on a server whose handshake reply has been sent, after a remote close
\* event, the step in which the writer leaves its loop and calls
\* _close_stream finds the engine without any unsent outbound frame.
C15_FlushedBeforeTeardown ==
    [][(/\ ~client /\ wsClosed
        /\ \E f \in sent : f.k = "accept"
        /\ pc["writer"] # "closing" /\ pc'["writer"] = "closing")
          => wsOut = <<>>]_vars

\* C16: on a remote close event the drain loop hands the ConnectionClosed
\* sentinel to every task suspended in get_message and buffers none: no
\* sentinel is ever left in the queue, once the loop is over no task is
\* suspended in get_message, a task that leaves the suspension from the
\* event on does so holding the sentinel with the close-reason, and a
\* get_message called afterwards raises at its guard and leaves the queue
\* alone.  The loop terminates: while it runs no task joins the suspended
\* ones, so that each of its turns takes one of them or ends it.
C16_DrainReachesAll ==
    /\ [](put_wait.kind # "exc")
    /\ [][pc["reader"] = "cmq" =>
            /\ Len(get_wait') <= Len(get_wait)
            /\ pc'["reader"] \in {"cmq", "dispatch", "recv", "recv_ready", "done"}]_vars
    /\ []((wsClosed /\ pc["reader"] # "cmq") => get_wait = <<>>)
    /\ [][\A t \in Apps :
            /\ (wsClosed' /\ pc[t] = "get_wait" /\ pc'[t] # "get_wait") =>
                 /\ pc'[t] = "get_ready"
                 /\ got'[t] = ConnectionClosed(close_reason')
            /\ (wsClosed /\ pc[t] = "idle") =>
                 /\ pc'[t] \notin {"get_wait", "get_ready"}
                 /\ (last'.by = t /\ last'.op = "get") =>
                      (last'.out = "raise" /\ UNCHANGED queueVars)]_vars

\* Two tasks were suspended in get_message at the event; the loop has handed
\* the sentinel to each of them.
C16_Witness ==
    /\ wsClosed /\ get_wait = <<>>
    /\ \A t \in Apps : pc[t] = "get_ready" /\ got[t] = ConnectionClosed(close_reason)

\* C17: teardown depends on the role: a server's writer calls _close_stream
\* in the step in which it leaves its loop, a client's writer ends in that
\* step without touching the transport, and a client's transport is closed
\* only by its reader, on a zero-length read.
C17_RoleTeardown ==
    [][/\ (/\ pc["writer"] \in {"start", "pending_ready", "sending"}
           /\ pc'["writer"] \notin {"start", "pending_ready", "sending",
                                     "wait_pending", "crashed"}) =>
             IF client
             THEN pc'["writer"] = "done" /\ streamClosed' = streamClosed
             ELSE pc'["writer"] = "closing" /\ streamClosed'
       /\ (client /\ ~streamClosed /\ streamClosed') =>
             /\ pc["reader"] = "recv_ready" /\ pc'["reader"] = "closing"
             /\ Head(inWire).k = "eof"]_vars

\* A client's writer has left its loop and ended; the transport is still open.
C17_Witness == client /\ pc["writer"] = "done" /\ ~streamClosed

\* C18: the writer never calls send_all on the transport once _close_stream
\* has closed it (the call would raise ClosedResourceError in the writer).
C18_NoSendAfterClose ==
    [][(pc["writer"] = "pending_ready" /\ streamClosed) =>
          pc'["writer"] # "crashed"]_vars

\* C19: a send_message or ping suspended when the closed signal is raised
\* completes; stated for the moment after which nothing can wake it: once
\* the connection is closed and the reader and the writer, the only tasks
\* that set pong-received and data-sent, have ended, no task is suspended in
\* send_message or ping.
C19_SuspendedCallsComplete ==
    (closed /\ pc["reader"] = "done" /\ pc["writer"] = "done") =>
        \A t \in Apps : pc[t] \notin {"ping_wait", "send_wait"}

\* C20: the liveness flags only go from true to false, reader-running false
\* implies writer-running false, and whenever the closed signal is raised
\* both flags are false and the transport has been closed.
C20_LivenessFlags ==
    /\ [](~reader_running => ~writer_running)
    /\ [](closed => (~reader_running /\ ~writer_running /\ streamClosed))
    /\ [][/\ ~reader_running => ~reader_running'
          /\ ~writer_running => ~writer_running']_vars

\* The remote close has stopped the writer only; later the closed signal is
\* raised with both flags down.
C20_Witness == closed /\ wsClosed /\ ~reader_running /\ ~writer_running

====
